---- MODULE Spec2Model ----
(***************************************************************************)
(* Model of platforms/astbmc/common.c (skiboot): device-tree repair,       *)
(* PSI BAR fixup, the early bring-up sequence and the IPMI power facade.   *)
(*                                                                         *)
(* The device tree is an arena: a sequence of nodes, each with the index   *)
(* of its parent (0 for the root), its name and its properties.  Children  *)
(* of a node are the nodes naming it as parent, in index order (creation   *)
(* appends).  64-bit register values are four 16-bit words, most           *)
(* significant first.                                                      *)
(***************************************************************************)
EXTENDS Integers, Sequences, FiniteSets, TLC

VARIABLES tree, chips, psibar, halted, lastOp, calls, ret, nops, booted, nwrites

vars == <<tree, chips, psibar, halted, lastOp, calls, ret, nops, booted, nwrites>>

(***************************************************************************)
(* Bounds of the model.                                                    *)
(***************************************************************************)
MaxLpc == 1
MaxSelLpc == 3
MaxBootLpc == 1
MaxOps == 2
MaxBootOps == 2

(***************************************************************************)
(* Program constants.                                                      *)
(***************************************************************************)
UART_IO_BASE == 1016
UART_IO_COUNT == 8
UART_LPC_IRQ == 4
BT_IO_BASE == 228
BT_IO_COUNT == 3
BT_LPC_IRQ == 10
PSI_BAR_REG == 33622282
PSI_BAR_VALUE == <<3, 65534, 32768, 1>>
I2CM_BASE == 655360
I2CM_STRIDE == 32
I2CM_ENGINE == 1
EEPROM_ADDR == 80
IPMI_CHASSIS_PWR_DOWN == 0
IPMI_CHASSIS_HARD_RESET == 3

(***************************************************************************)
(* printf-style conversions.                                               *)
(***************************************************************************)
HexDigits == <<"0", "1", "2", "3", "4", "5", "6", "7",
               "8", "9", "a", "b", "c", "d", "e", "f">>

RECURSIVE ToHex(_)
ToHex(n) ==
  IF n < 16 THEN HexDigits[n + 1]
  ELSE ToHex(n \div 16) \o HexDigits[(n % 16) + 1]

RECURSIVE ToHexW(_, _)
ToHexW(n, w) ==
  IF w <= 1 THEN ToHex(n)
  ELSE IF n < 16 THEN ToHexW(0, w - 1) \o HexDigits[n + 1]
  ELSE ToHexW(n \div 16, w - 1) \o HexDigits[(n % 16) + 1]

RECURSIVE ToDec(_)
ToDec(n) ==
  IF n < 10 THEN HexDigits[n + 1]
  ELSE ToDec(n \div 10) \o HexDigits[(n % 10) + 1]

PortName(chipId, eng, port) ==
  "p8_" \o ToHexW(chipId, 8) \o "_e" \o ToDec(eng) \o "p" \o ToDec(port)

(***************************************************************************)
(* Device-tree store (core/device.c, consumed through its interface).      *)
(***************************************************************************)
Cells(s) == [cells |-> s, strs |-> <<>>]
Strs(s) == [cells |-> <<>>, strs |-> s]

Node(p, nm, pr) == [parent |-> p, name |-> nm, props |-> pr]

NoProps == [x \in {} |-> Cells(<<>>)]

dt_root == 1

SeqToSet(s) == {s[i] : i \in DOMAIN s}

\* The children of node n.
Children(t, n) == {i \in DOMAIN t : t[i].parent = n}

dt_has_node_property(t, n, p) == p \in DOMAIN t[n].props

dt_node_is_compatible(t, n, compat) ==
  /\ dt_has_node_property(t, n, "compatible")
  /\ compat \in SeqToSet(t[n].props["compatible"].strs)

\* Traversal order (dt_next): depth first, a node before its children,
\* children in creation order.  A node's path lists the nodes from the root
\* down to it; a comes before b iff a's path is a proper prefix of b's or is
\* smaller at the first place where the two differ.
RECURSIVE Path(_, _)
Path(t, n) == IF n = 0 THEN <<>> ELSE Append(Path(t, t[n].parent), n)

PathBefore(pa, pb) ==
  \E i \in 1..Len(pb) :
    /\ i - 1 <= Len(pa)
    /\ \A j \in 1..(i - 1) : pa[j] = pb[j]
    /\ (i > Len(pa) \/ pa[i] < pb[i])

RECURSIVE InTraversalOrder(_, _)
InTraversalOrder(t, S) ==
  IF S = {} THEN <<>>
  ELSE LET first == CHOOSE a \in S :
                      \A b \in S \ {a} : PathBefore(Path(t, a), Path(t, b))
       IN <<first>> \o InTraversalOrder(t, S \ {first})

\* The nodes compatible with compat, in traversal order (dt_for_each_compatible).
CompatibleNodes(t, compat) ==
  InTraversalOrder(t, {n \in DOMAIN t : dt_node_is_compatible(t, n, compat)})

\* First compatible node in traversal order, 0 (NULL) when there is none.
dt_find_compatible_node(t, compat) ==
  LET cn == CompatibleNodes(t, compat)
  IN IF cn = <<>> THEN 0 ELSE cn[1]

\* A new child of parent; NULL (node 0, tree unchanged) when the store is
\* exhausted or a sibling already carries the name.
dt_new(t, parent, name, exhausted) ==
  IF exhausted \/ \E c \in Children(t, parent) : t[c].name = name
  THEN [tree |-> t, node |-> 0]
  ELSE [tree |-> Append(t, Node(parent, name, NoProps)), node |-> Len(t) + 1]

dt_new_addr(t, parent, name, addr, exhausted) ==
  dt_new(t, parent, name \o "@" \o ToHex(addr), exhausted)

dt_add_property(t, n, name, val) ==
  [t EXCEPT ![n].props = (name :> val) @@ @]

\* Chip id of the nearest ancestor-or-self carrying "ibm,chip-id", -1 if none.
RECURSIVE dt_get_chip_id(_, _)
dt_get_chip_id(t, n) ==
  IF n = 0 THEN -1
  ELSE IF dt_has_node_property(t, n, "ibm,chip-id")
       THEN t[n].props["ibm,chip-id"].cells[1]
       ELSE dt_get_chip_id(t, t[n].parent)

(***************************************************************************)
(* Outcome of a repair step: the tree it leaves, how it ended ("ok", an    *)
(* assertion failure "assert", or a crash "fault"), and which node         *)
(* creation returned NULL ("none" when all that were attempted succeeded). *)
(***************************************************************************)
Res(t, st, failed) == [tree |-> t, st |-> st, failed |-> failed]

\* Dereferencing the NULL returned by dt_new is undefined: the build either
\* crashes ("fault") or carries on with the tree as it was ("ok").
UbOutcomes == {"fault", "ok"}

FailPoints == {"none", "uart", "bt", "i2cm", "bus0", "bus2", "dev"}

(***************************************************************************)
(* astbmc_fixup_dt_bt                                                      *)
(***************************************************************************)
\* Variant: "status" is added to the bus node instead of the new node.
astbmc_fixup_dt_bt_MarkBus(t, lpc, fail, ub) ==
  IF \E c \in Children(t, lpc) : dt_node_is_compatible(t, c, "bt")
  THEN Res(t, "ok", "none")
  ELSE
    LET r == dt_new(t, lpc, "ipmi-bt@i" \o ToHex(BT_IO_BASE), fail = "bt")
        bt == r.node
        t1 == dt_add_property(r.tree, bt, "reg",
                              Cells(<<1, BT_IO_BASE, BT_IO_COUNT>>))
        t2 == dt_add_property(t1, bt, "compatible", Strs(<<"ipmi-bt">>))
        t3 == dt_add_property(t2, lpc, "status", Strs(<<"reserved">>))
    IN IF bt = 0 THEN Res(t, ub, "bt") ELSE Res(t3, "ok", "none")

astbmc_fixup_dt_bt(t, lpc, fail, ub) ==
  IF \E c \in Children(t, lpc) : dt_node_is_compatible(t, c, "bt")
  THEN Res(t, "ok", "none")
  ELSE
    LET r == dt_new(t, lpc, "ipmi-bt@i" \o ToHex(BT_IO_BASE), fail = "bt")
        bt == r.node
        t1 == dt_add_property(r.tree, bt, "reg",
                              Cells(<<1, BT_IO_BASE, BT_IO_COUNT>>))
        t2 == dt_add_property(t1, bt, "compatible", Strs(<<"ipmi-bt">>))
        t3 == dt_add_property(t2, bt, "status", Strs(<<"reserved">>))
    IN IF bt = 0 THEN Res(t, ub, "bt") ELSE Res(t3, "ok", "none")

(***************************************************************************)
(* astbmc_fixup_dt_uart                                                    *)
(***************************************************************************)
\* Variant: the node is created without the "ns16550" compatible string.
astbmc_fixup_dt_uart_NoTag(t, lpc, fail, ub) ==
  IF \E c \in Children(t, lpc) : dt_node_is_compatible(t, c, "ns16550")
  THEN Res(t, "ok", "none")
  ELSE
    LET r == dt_new(t, lpc, "serial@i" \o ToHex(UART_IO_BASE), fail = "uart")
        uart == r.node
        t1 == dt_add_property(r.tree, uart, "reg",
                              Cells(<<1, UART_IO_BASE, UART_IO_COUNT>>))
        t2 == dt_add_property(t1, uart, "compatible", Strs(<<"pnpPNP,501">>))
        t3 == dt_add_property(t2, uart, "clock-frequency", Cells(<<1843200>>))
        t4 == dt_add_property(t3, uart, "current-speed", Cells(<<115200>>))
        t5 == dt_add_property(t4, uart, "device_type", Strs(<<"serial">>))
        id == dt_get_chip_id(t5, lpc)
        t6 == dt_add_property(t5, uart, "ibm,irq-chip-id", Cells(<<id>>))
    IN IF uart = 0 THEN Res(t, ub, "uart")
       ELSE IF id < 0 THEN Res(t5, "assert", "none")
       ELSE Res(t6, "ok", "none")

astbmc_fixup_dt_uart(t, lpc, fail, ub) ==
  IF \E c \in Children(t, lpc) : dt_node_is_compatible(t, c, "ns16550")
  THEN Res(t, "ok", "none")
  ELSE
    LET r == dt_new(t, lpc, "serial@i" \o ToHex(UART_IO_BASE), fail = "uart")
        uart == r.node
        t1 == dt_add_property(r.tree, uart, "reg",
                              Cells(<<1, UART_IO_BASE, UART_IO_COUNT>>))
        t2 == dt_add_property(t1, uart, "compatible",
                              Strs(<<"ns16550", "pnpPNP,501">>))
        t3 == dt_add_property(t2, uart, "clock-frequency", Cells(<<1843200>>))
        t4 == dt_add_property(t3, uart, "current-speed", Cells(<<115200>>))
        t5 == dt_add_property(t4, uart, "device_type", Strs(<<"serial">>))
        id == dt_get_chip_id(t5, lpc)
        t6 == dt_add_property(t5, uart, "ibm,irq-chip-id", Cells(<<id>>))
    IN IF uart = 0 THEN Res(t, ub, "uart")
       ELSE IF id < 0 THEN Res(t5, "assert", "none")
       ELSE Res(t6, "ok", "none")

(***************************************************************************)
(* dt_create_i2c_master, dt_create_i2c_bus, dt_create_i2c_device           *)
(***************************************************************************)
dt_create_i2c_master(t, n, eng_id, exhausted) ==
  LET addr == I2CM_BASE + eng_id * I2CM_STRIDE
      r == dt_new_addr(t, n, "i2cm", addr, exhausted)
      i2cm == r.node
      t1 == dt_add_property(r.tree, i2cm, "compatible", Strs(<<"ibm,power8-i2cm">>))
      t2 == dt_add_property(t1, i2cm, "reg", Cells(<<addr, I2CM_STRIDE>>))
      t3 == dt_add_property(t2, i2cm, "clock-frequency", Cells(<<50000000>>))
      t4 == dt_add_property(t3, i2cm, "chip-engine#", Cells(<<eng_id>>))
      t5 == dt_add_property(t4, i2cm, "#address-cells", Cells(<<1>>))
      t6 == dt_add_property(t5, i2cm, "#size-cells", Cells(<<0>>))
  IN IF i2cm = 0 THEN [tree |-> t, node |-> 0] ELSE [tree |-> t6, node |-> i2cm]

dt_create_i2c_bus(t, i2cm, port_name, port_id, exhausted) ==
  LET r == dt_new_addr(t, i2cm, "i2c-bus", port_id, exhausted)
      port == r.node
      t1 == dt_add_property(r.tree, port, "compatible",
                            Strs(<<"ibm,power8-i2c-port", "ibm,opal-i2c">>))
      t2 == dt_add_property(t1, port, "ibm,port-name", Strs(<<port_name>>))
      t3 == dt_add_property(t2, port, "reg", Cells(<<port_id>>))
      t4 == dt_add_property(t3, port, "bus-frequency", Cells(<<400000>>))
      t5 == dt_add_property(t4, port, "#address-cells", Cells(<<1>>))
      t6 == dt_add_property(t5, port, "#size-cells", Cells(<<0>>))
  IN IF port = 0 THEN [tree |-> t, node |-> 0] ELSE [tree |-> t6, node |-> port]

dt_create_i2c_device(t, bus, addr, name, compat, label, exhausted) ==
  LET r == dt_new_addr(t, bus, name, addr, exhausted)
      dev == r.node
      t1 == dt_add_property(r.tree, dev, "compatible", Strs(<<compat>>))
      t2 == dt_add_property(t1, dev, "label", Strs(<<label>>))
      t3 == dt_add_property(t2, dev, "reg", Cells(<<addr>>))
      t4 == dt_add_property(t3, dev, "status", Strs(<<"ok">>))
  IN IF dev = 0 THEN [tree |-> t, node |-> 0] ELSE [tree |-> t4, node |-> dev]

(***************************************************************************)
(* Chip registry (core/chip.c): ch maps each chip id to its devnode.       *)
(***************************************************************************)
get_chip(ch, id) == IF id \in DOMAIN ch THEN id ELSE -1

next_chip_first(ch) == CHOOSE id \in DOMAIN ch : \A o \in DOMAIN ch : id <= o

(***************************************************************************)
(* astbmc_fixup_dt_i2cm                                                    *)
(***************************************************************************)
\* Variant: the check for an existing master looks under chip 0 only.
astbmc_fixup_dt_i2cm_Chip0Only(t, ch, fail) ==
  IF /\ 0 \in DOMAIN ch
     /\ \E n \in Children(t, ch[0]) : dt_node_is_compatible(t, n, "ibm,power8-i2cm")
  THEN Res(t, "ok", "none")
  ELSE
    LET c == get_chip(ch, 0)
    IN IF c < 0 THEN Res(t, "assert", "none")
       ELSE
         LET m == dt_create_i2c_master(t, ch[c], I2CM_ENGINE, fail = "i2cm")
         IN IF m.node = 0 THEN Res(m.tree, "assert", "i2cm")
            ELSE
              LET b0 == dt_create_i2c_bus(m.tree, m.node,
                                          PortName(c, I2CM_ENGINE, 0), 0, fail = "bus0")
              IN IF b0.node = 0 THEN Res(b0.tree, "assert", "bus0")
                 ELSE
                   LET b2 == dt_create_i2c_bus(b0.tree, m.node,
                                               PortName(c, I2CM_ENGINE, 2), 2,
                                               fail = "bus2")
                   IN IF b2.node = 0 THEN Res(b2.tree, "assert", "bus2")
                      ELSE
                        LET d == dt_create_i2c_device(b2.tree, b2.node, EEPROM_ADDR,
                                                      "eeprom", "atmel,24c64",
                                                      "system-vpd", fail = "dev")
                        IN Res(d.tree, "ok", IF d.node = 0 THEN "dev" ELSE "none")

astbmc_fixup_dt_i2cm(t, ch, fail) ==
  IF dt_find_compatible_node(t, "ibm,power8-i2cm") # 0
  THEN Res(t, "ok", "none")
  ELSE
    LET c == get_chip(ch, 0)
    IN IF c < 0 THEN Res(t, "assert", "none")
       ELSE
         LET m == dt_create_i2c_master(t, ch[c], I2CM_ENGINE, fail = "i2cm")
         IN IF m.node = 0 THEN Res(m.tree, "assert", "i2cm")
            ELSE
              LET b0 == dt_create_i2c_bus(m.tree, m.node,
                                          PortName(c, I2CM_ENGINE, 0), 0, fail = "bus0")
              IN IF b0.node = 0 THEN Res(b0.tree, "assert", "bus0")
                 ELSE
                   LET b2 == dt_create_i2c_bus(b0.tree, m.node,
                                               PortName(c, I2CM_ENGINE, 2), 2,
                                               fail = "bus2")
                   IN IF b2.node = 0 THEN Res(b2.tree, "assert", "bus2")
                      ELSE
                        LET d == dt_create_i2c_device(b2.tree, b2.node, EEPROM_ADDR,
                                                      "eeprom", "atmel,24c64",
                                                      "system-vpd", fail = "dev")
                        \* assert(bus): bus is non-NULL here whatever d is
                        IN Res(d.tree, "ok", IF d.node = 0 THEN "dev" ELSE "none")

(***************************************************************************)
(* astbmc_fixup_dt: the scan for the primary LPC bus, then the repairs.    *)
(***************************************************************************)
\* Variants of the scan with one condition changed.
RECURSIVE ScanLpc_FirstWins(_, _, _, _)
ScanLpc_FirstWins(t, cn, i, primary_lpc) ==
  IF i > Len(cn) THEN primary_lpc
  ELSE
    LET n == cn[i]
        p == IF primary_lpc = 0 THEN n ELSE primary_lpc
    IN IF dt_has_node_property(t, n, "#address-cells") THEN p
       ELSE ScanLpc_FirstWins(t, cn, i + 1, p)

RECURSIVE ScanLpc_NoBreak(_, _, _, _)
ScanLpc_NoBreak(t, cn, i, primary_lpc) ==
  IF i > Len(cn) THEN primary_lpc
  ELSE
    LET n == cn[i]
        p == IF primary_lpc = 0 \/ dt_has_node_property(t, n, "primary")
             THEN n ELSE primary_lpc
    IN ScanLpc_NoBreak(t, cn, i + 1, p)

RECURSIVE ScanLpc_FirstMarkedWins(_, _, _, _)
ScanLpc_FirstMarkedWins(t, cn, i, primary_lpc) ==
  IF i > Len(cn) THEN primary_lpc
  ELSE
    LET n == cn[i]
        p == IF \/ primary_lpc = 0
                \/ /\ dt_has_node_property(t, n, "primary")
                   /\ ~dt_has_node_property(t, primary_lpc, "primary")
             THEN n ELSE primary_lpc
    IN IF dt_has_node_property(t, n, "#address-cells") THEN p
       ELSE ScanLpc_FirstMarkedWins(t, cn, i + 1, p)

RECURSIVE ScanLpc(_, _, _, _)
ScanLpc(t, cn, i, primary_lpc) ==
  IF i > Len(cn) THEN primary_lpc
  ELSE
    LET n == cn[i]
        p == IF primary_lpc = 0 \/ dt_has_node_property(t, n, "primary")
             THEN n ELSE primary_lpc
    IN IF dt_has_node_property(t, n, "#address-cells") THEN p
       ELSE ScanLpc(t, cn, i + 1, p)

select_primary_lpc(t) == ScanLpc(t, CompatibleNodes(t, "ibm,power8-lpc"), 1, 0)

fixup_dt_repairs(t, ch, primary_lpc, fail, ub) ==
  LET u == astbmc_fixup_dt_uart(t, primary_lpc, fail, ub)
  IN IF u.st # "ok" THEN u
     ELSE
       LET b == astbmc_fixup_dt_bt(u.tree, primary_lpc, fail, ub)
           bf == IF u.failed # "none" THEN u.failed ELSE b.failed
       IN IF b.st # "ok" THEN Res(b.tree, b.st, bf)
          ELSE
            LET i == astbmc_fixup_dt_i2cm(b.tree, ch, fail)
            IN Res(i.tree, i.st, IF bf # "none" THEN bf ELSE i.failed)

\* Variant that repairs the I2C topology even without a primary LPC bus.
astbmc_fixup_dt_AlwaysI2cm(t, ch, fail, ub) ==
  LET primary_lpc == select_primary_lpc(t)
  IN IF primary_lpc = 0 THEN astbmc_fixup_dt_i2cm(t, ch, fail)
     ELSE fixup_dt_repairs(t, ch, primary_lpc, fail, ub)

astbmc_fixup_dt(t, ch, fail, ub) ==
  LET primary_lpc == select_primary_lpc(t)
  IN IF primary_lpc = 0 THEN Res(t, "ok", "none")
     ELSE fixup_dt_repairs(t, ch, primary_lpc, fail, ub)

(***************************************************************************)
(* Calls made to the external services, in order.                          *)
(***************************************************************************)
Call(fn, msg, a) == [fn |-> fn, msg |-> msg, a |-> a]

\* A call whose result the caller uses: rv is what the service answered.
CallRet(fn, a, rv) == [fn |-> fn, msg |-> "", a |-> a, rv |-> rv]

Bit0(v) == v[4] % 2

(***************************************************************************)
(* astbmc_fixup_psi_bar: regs maps chip id to the value of its PSI BAR.    *)
(* rd_ok, wr_ok: whether the xscom access succeeds.                        *)
(***************************************************************************)
\* Variants: no "already configured" test; a value with bit 0 clear.
psi_bar_after_read_NoCheck(regs, chip, wr_ok) ==
  [regs |-> IF wr_ok THEN [regs EXCEPT ![chip] = PSI_BAR_VALUE] ELSE regs,
   calls |-> << Call("printf", "PLAT: Fixing up PSI BAR", <<chip>> \o PSI_BAR_VALUE),
                Call("xscom_write", "", <<chip, PSI_BAR_REG>> \o PSI_BAR_VALUE) >>,
   nw |-> IF wr_ok THEN 1 ELSE 0]

psi_bar_after_read_BadValue(regs, chip, wr_ok) ==
  LET v == <<3, 65534, 32768, 0>>
  IN IF Bit0(regs[chip]) = 1
     THEN [regs |-> regs, calls |-> <<>>, nw |-> 0]
     ELSE [regs |-> IF wr_ok THEN [regs EXCEPT ![chip] = v] ELSE regs,
           calls |-> << Call("printf", "PLAT: Fixing up PSI BAR", <<chip>> \o v),
                        Call("xscom_write", "", <<chip, PSI_BAR_REG>> \o v) >>,
           nw |-> IF wr_ok THEN 1 ELSE 0]

psi_bar_after_read(regs, chip, wr_ok) ==
  IF Bit0(regs[chip]) = 1
  THEN [regs |-> regs, calls |-> <<>>, nw |-> 0]
  ELSE [regs |-> IF wr_ok THEN [regs EXCEPT ![chip] = PSI_BAR_VALUE] ELSE regs,
        calls |-> << Call("printf", "PLAT: Fixing up PSI BAR", <<chip>> \o PSI_BAR_VALUE),
                     Call("xscom_write", "", <<chip, PSI_BAR_REG>> \o PSI_BAR_VALUE) >>,
        nw |-> IF wr_ok THEN 1 ELSE 0]

\* Variant: the return after a failed read is missing.
astbmc_fixup_psi_bar_NoReturn(regs, ch, rd_ok, wr_ok) ==
  LET chip == next_chip_first(ch)
      rd == << CallRet("xscom_read", <<chip, PSI_BAR_REG>>, IF rd_ok THEN 0 ELSE -1) >>
      er == IF rd_ok THEN <<>>
            ELSE << Call("prerror", "PLAT: Error reading PSI BAR", <<>>) >>
      w == psi_bar_after_read(regs, chip, wr_ok)
  IN [regs |-> w.regs, calls |-> rd \o er \o w.calls, nw |-> w.nw]

astbmc_fixup_psi_bar(regs, ch, rd_ok, wr_ok) ==
  LET chip == next_chip_first(ch)
      rd == << CallRet("xscom_read", <<chip, PSI_BAR_REG>>, IF rd_ok THEN 0 ELSE -1) >>
  IN IF ~rd_ok
     THEN [regs |-> regs,
           calls |-> rd \o << Call("prerror", "PLAT: Error reading PSI BAR", <<>>) >>,
           nw |-> 0]
     ELSE LET w == psi_bar_after_read(regs, chip, wr_ok)
          IN [regs |-> w.regs, calls |-> rd \o w.calls, nw |-> w.nw]

(***************************************************************************)
(* astbmc_early_init                                                       *)
(***************************************************************************)
\* Variant: the SuperIO path programmed with the BT interrupt line.
uart_setup_calls_SioIrq(vuart) ==
  IF vuart
  THEN << Call("printf", "PLAT: Using virtual UART", <<>>),
          Call("ast_disable_sio_uart1", "", <<>>),
          Call("ast_setup_vuart1", "", <<UART_IO_BASE, UART_LPC_IRQ>>) >>
  ELSE << Call("printf", "PLAT: Using SuperIO UART", <<>>),
          Call("ast_setup_sio_uart1", "", <<UART_IO_BASE, BT_LPC_IRQ>>) >>

\* Variant: the virtual UART is set up before the SuperIO UART is disabled.
uart_setup_calls_DisableLast(vuart) ==
  IF vuart
  THEN << Call("printf", "PLAT: Using virtual UART", <<>>),
          Call("ast_setup_vuart1", "", <<UART_IO_BASE, UART_LPC_IRQ>>),
          Call("ast_disable_sio_uart1", "", <<>>) >>
  ELSE << Call("printf", "PLAT: Using SuperIO UART", <<>>),
          Call("ast_setup_sio_uart1", "", <<UART_IO_BASE, UART_LPC_IRQ>>) >>

uart_setup_calls(vuart) ==
  IF vuart
  THEN << Call("printf", "PLAT: Using virtual UART", <<>>),
          Call("ast_disable_sio_uart1", "", <<>>),
          Call("ast_setup_vuart1", "", <<UART_IO_BASE, UART_LPC_IRQ>>) >>
  ELSE << Call("printf", "PLAT: Using SuperIO UART", <<>>),
          Call("ast_setup_sio_uart1", "", <<UART_IO_BASE, UART_LPC_IRQ>>) >>

\* Variant: the virtual-UART query is made before ast_io_init().
astbmc_early_init_QueryFirst(dt, ch, regs, rd_ok, wr_ok, vuart) ==
  LET psi == astbmc_fixup_psi_bar(regs, ch, rd_ok, wr_ok)
  IN IF dt.st # "ok"
     THEN [dt |-> dt, regs |-> regs, calls |-> <<>>, nw |-> 0]
     ELSE [dt |-> dt, regs |-> psi.regs, nw |-> psi.nw,
           calls |-> psi.calls
                     \o << Call("psi_set_external_irq_policy",
                                "EXTERNAL_IRQ_POLICY_SKIBOOT", <<>>),
                           CallRet("ast_is_vuart1_enabled", <<>>,
                                   IF vuart THEN 1 ELSE 0),
                           Call("ast_io_init", "", <<>>) >>
                     \o uart_setup_calls(vuart)
                     \o << Call("ast_setup_ibt", "", <<BT_IO_BASE, BT_LPC_IRQ>>),
                           Call("uart_init", "", <<1>>) >>]

\* dt: the outcome of the astbmc_fixup_dt() step.
astbmc_early_init(dt, ch, regs, rd_ok, wr_ok, vuart) ==
  LET psi == astbmc_fixup_psi_bar(regs, ch, rd_ok, wr_ok)
  IN IF dt.st # "ok"
     THEN [dt |-> dt, regs |-> regs, calls |-> <<>>, nw |-> 0]
     ELSE [dt |-> dt, regs |-> psi.regs, nw |-> psi.nw,
           calls |-> psi.calls
                     \o << Call("psi_set_external_irq_policy",
                                "EXTERNAL_IRQ_POLICY_SKIBOOT", <<>>),
                           Call("ast_io_init", "", <<>>),
                           CallRet("ast_is_vuart1_enabled", <<>>,
                                   IF vuart THEN 1 ELSE 0) >>
                     \o uart_setup_calls(vuart)
                     \o << Call("ast_setup_ibt", "", <<BT_IO_BASE, BT_LPC_IRQ>>),
                           Call("uart_init", "", <<1>>) >>]

(***************************************************************************)
(* astbmc_init, astbmc_ipmi_power_down, astbmc_ipmi_reboot, astbmc_ext_irq *)
(***************************************************************************)
\* Variant: the power state is announced before bt_init().
astbmc_init_PowerStateFirst(dummy) ==
  << Call("pnor_init", "", <<>>),
     Call("ipmi_set_power_state", "IPMI_PWR_SYS_S0_WORKING,IPMI_PWR_NOCHANGE", <<>>),
     Call("bt_init", "", <<>>),
     Call("ipmi_rtc_init", "", <<>>),
     Call("ipmi_opal_init", "", <<>>),
     CallRet("dummy_console_enabled", <<>>, IF dummy THEN 1 ELSE 0) >>
  \o IF dummy THEN <<>> ELSE << Call("uart_setup_opal_console", "", <<>>) >>

astbmc_init(dummy) ==
  << Call("pnor_init", "", <<>>),
     Call("bt_init", "", <<>>),
     Call("ipmi_rtc_init", "", <<>>),
     Call("ipmi_opal_init", "", <<>>),
     Call("ipmi_set_power_state", "IPMI_PWR_SYS_S0_WORKING,IPMI_PWR_NOCHANGE", <<>>),
     CallRet("dummy_console_enabled", <<>>, IF dummy THEN 1 ELSE 0) >>
  \o IF dummy THEN <<>> ELSE << Call("uart_setup_opal_console", "", <<>>) >>

\* Variant: an unexpected request is logged and dropped.
astbmc_ipmi_power_down_Drop(request, rc) ==
  IF request # IPMI_CHASSIS_PWR_DOWN
  THEN [calls |-> << Call("prlog", "PR_WARNING PLAT: unexpected shutdown request",
                          <<request>>) >>,
        ret |-> -1]
  ELSE [calls |-> << CallRet("ipmi_chassis_control", <<request>>, rc) >>, ret |-> rc]

astbmc_ipmi_power_down(request, rc) ==
  [calls |-> (IF request # IPMI_CHASSIS_PWR_DOWN
              THEN << Call("prlog", "PR_WARNING PLAT: unexpected shutdown request",
                           <<request>>) >>
              ELSE <<>>)
             \o << CallRet("ipmi_chassis_control", <<request>>, rc) >>,
   ret |-> rc]

\* Variant: a failed request is sent a second time.
astbmc_ipmi_reboot_Retry(rc) ==
  [calls |-> << CallRet("ipmi_chassis_control", <<IPMI_CHASSIS_HARD_RESET>>, rc) >>
             \o IF rc # 0
                THEN << CallRet("ipmi_chassis_control",
                                <<IPMI_CHASSIS_HARD_RESET>>, rc) >>
                ELSE <<>>,
   ret |-> rc]

astbmc_ipmi_reboot(rc) ==
  [calls |-> << CallRet("ipmi_chassis_control", <<IPMI_CHASSIS_HARD_RESET>>, rc) >>,
   ret |-> rc]

\* Variant: only interrupts of chip 0 are dispatched.
astbmc_ext_irq_Chip0(chip_id) ==
  IF chip_id = 0
  THEN << Call("uart_irq", "", <<>>), Call("bt_irq", "", <<>>) >>
  ELSE <<>>

astbmc_ext_irq(chip_id) ==
  << Call("uart_irq", "", <<>>), Call("bt_irq", "", <<>>) >>

(***************************************************************************)
(* The tree handed over by the earlier boot stage (Hostboot): the root,    *)
(* one xscom node per chip, the LPC buses spread over the chips, and what  *)
(* Hostboot already populated.                                             *)
(*   cs    chip ids, ascending                                             *)
(*   lpcs  per LPC bus, whether it carries "primary" / "#address-cells"    *)
(*   hb    what is already there: a UART, a BT node, an I2C master         *)
(***************************************************************************)
ChipConfigs == {<<0, 1>>, <<1>>}

LpcFlags == [pri : BOOLEAN, ac : BOOLEAN]

LpcConfigs(max) == UNION {[1..n -> LpcFlags] : n \in 0..max}

HbLevels == {"bare", "uart", "bt", "ipmi-bt", "i2cm", "full"}

LpcProps(f) ==
  ("compatible" :> Strs(<<"ibm,power8-lpc">>))
  @@ (IF f.pri THEN ("primary" :> Cells(<<>>)) ELSE NoProps)
  @@ (IF f.ac THEN ("#address-cells" :> Cells(<<2>>)) ELSE NoProps)

HbTree(cs, lpcs, hb) ==
  LET nc == Len(cs)
      n == Len(lpcs)
      lpcIdx(k) == 1 + nc + k
      root == << Node(0, "", NoProps) >>
      chipNodes == [i \in 1..nc |->
                      Node(dt_root, "xscom@" \o ToHex(cs[i]),
                           ("ibm,chip-id" :> Cells(<<cs[i]>>)))]
      lpcNodes == [k \in 1..n |->
                     Node(2 + ((k - 1) % nc), "lpc@" \o ToHex(k), LpcProps(lpcs[k]))]
      uartNodes == IF hb \in {"uart", "full"}
                   THEN [k \in 1..n |->
                           Node(lpcIdx(k), "serial@i" \o ToHex(UART_IO_BASE),
                                ("compatible" :> Strs(<<"ns16550">>)))]
                   ELSE <<>>
      btNodes == IF hb \in {"bt", "full"}
                 THEN [k \in 1..n |->
                         Node(lpcIdx(k), "bt@i" \o ToHex(BT_IO_BASE),
                              ("compatible" :> Strs(<<"bt">>)))]
                 ELSE IF hb = "ipmi-bt"
                 THEN [k \in 1..n |->
                         Node(lpcIdx(k), "ipmi-bt@i" \o ToHex(BT_IO_BASE),
                              ("compatible" :> Strs(<<"ipmi-bt">>)))]
                 ELSE <<>>
      i2cmNodes == IF hb \in {"i2cm", "full"}
                   THEN << Node(2, "i2cm@" \o ToHex(I2CM_BASE),
                                ("compatible" :> Strs(<<"ibm,power8-i2cm">>))) >>
                   ELSE <<>>
  IN root \o chipNodes \o lpcNodes \o uartNodes \o btNodes \o i2cmNodes

ChipRegistry(cs) == [id \in SeqToSet(cs) |-> 1 + (CHOOSE i \in DOMAIN cs : cs[i] = id)]

RegValues == {<<0, 0, 0, 0>>, <<0, 0, 0, 1>>, <<0, 0, 0, 2>>, PSI_BAR_VALUE}

NoOp == [fn |-> "none", arg |-> 0, primary |-> 0, failed |-> "none",
         pre |-> <<>>, regpre |-> <<>>,
         prevfn |-> "none", prevarg |-> 0, prevfailed |-> "none"]

InitWith(maxLpc, hbLevels, regValues) ==
  /\ \E cs \in ChipConfigs, lpcs \in LpcConfigs(maxLpc), hb \in hbLevels,
        v \in regValues :
       /\ tree = HbTree(cs, lpcs, hb)
       /\ chips = ChipRegistry(cs)
       /\ psibar = [id \in SeqToSet(cs) |-> IF id = cs[1] THEN v ELSE <<0, 0, 0, 0>>]
  /\ halted = "run"
  /\ lastOp = NoOp
  /\ calls = <<>>
  /\ ret = 0
  /\ nops = 0
  /\ booted = FALSE
  /\ nwrites = 0

Init == InitWith(MaxLpc, HbLevels, {<<0, 0, 0, 0>>})

InitBoot == InitWith(MaxBootLpc, HbLevels, RegValues)

(***************************************************************************)
(* One invocation: the state it leaves and the record of what it was.      *)
(***************************************************************************)
Invoke(fn, arg, primary, failed, t, st, regs, cs, rv, nw, bt) ==
  /\ tree' = t
  /\ halted' = IF st = "ok" THEN "run" ELSE st
  /\ psibar' = regs
  /\ calls' = cs
  /\ ret' = rv
  /\ nwrites' = nwrites + nw
  /\ booted' = bt
  /\ nops' = nops + 1
  /\ lastOp' = [fn |-> fn, arg |-> arg, primary |-> primary, failed |-> failed,
                pre |-> tree, regpre |-> psibar,
                prevfn |-> lastOp.fn, prevarg |-> lastOp.arg,
                prevfailed |-> lastOp.failed]
  /\ UNCHANGED chips

LpcNodes(t) == SeqToSet(CompatibleNodes(t, "ibm,power8-lpc"))

FixupDt ==
  /\ halted = "run" /\ nops < MaxOps
  /\ \E r \in {astbmc_fixup_dt(tree, chips, fail, ub) :
                   fail \in FailPoints, ub \in UbOutcomes} :
          Invoke("fixup_dt", 0, select_primary_lpc(tree), r.failed,
                 r.tree, r.st, psibar, <<>>, ret, 0, booted)

FixupDtUart ==
  /\ halted = "run" /\ nops < MaxOps
  /\ \E lpc \in LpcNodes(tree), fail \in {"none", "uart"}, ub \in UbOutcomes :
       \E r \in {astbmc_fixup_dt_uart(tree, lpc, fail, ub)} :
          Invoke("fixup_dt_uart", lpc, 0, r.failed,
                 r.tree, r.st, psibar, <<>>, ret, 0, booted)

FixupDtBt ==
  /\ halted = "run" /\ nops < MaxOps
  /\ \E lpc \in LpcNodes(tree), fail \in {"none", "bt"}, ub \in UbOutcomes :
       \E r \in {astbmc_fixup_dt_bt(tree, lpc, fail, ub)} :
          Invoke("fixup_dt_bt", lpc, 0, r.failed,
                 r.tree, r.st, psibar, <<>>, ret, 0, booted)

FixupDtI2cm ==
  /\ halted = "run" /\ nops < MaxOps
  /\ \E fail \in {"none", "i2cm", "bus0", "bus2", "dev"} :
       \E r \in {astbmc_fixup_dt_i2cm(tree, chips, fail)} :
          Invoke("fixup_dt_i2cm", 0, 0, r.failed,
                 r.tree, r.st, psibar, <<>>, ret, 0, booted)

Next == FixupDt \/ FixupDtUart \/ FixupDtBt \/ FixupDtI2cm

Spec == Init /\ [][Next]_vars

\* The scan for the primary bus, over trees with more LPC buses.
InitSelect == InitWith(MaxSelLpc, {"bare", "full"}, {<<0, 0, 0, 0>>})

NextSelect == FixupDt

SpecSelect == InitSelect /\ [][NextSelect]_vars

(***************************************************************************)
(* Bring-up and the run-time entry points.                                 *)
(***************************************************************************)
Requests == {IPMI_CHASSIS_PWR_DOWN, 1, IPMI_CHASSIS_HARD_RESET}

ResultCodes == {0, -1}

ChipIds == {0, 1}

EarlyInit ==
  /\ halted = "run" /\ nops < MaxBootOps /\ ~booted
  /\ \E dt \in {astbmc_fixup_dt(tree, chips, fail, ub) :
                    fail \in FailPoints, ub \in UbOutcomes},
        rd_ok \in BOOLEAN, wr_ok \in BOOLEAN, vuart \in BOOLEAN :
       \E r \in {astbmc_early_init(dt, chips, psibar, rd_ok, wr_ok, vuart)} :
          Invoke("early_init", 0, select_primary_lpc(tree), r.dt.failed,
                 r.dt.tree, r.dt.st, r.regs, r.calls, ret, r.nw, TRUE)

FixupPsiBar ==
  /\ halted = "run" /\ nops < MaxBootOps
  /\ \E rd_ok \in BOOLEAN, wr_ok \in BOOLEAN :
       \E r \in {astbmc_fixup_psi_bar(psibar, chips, rd_ok, wr_ok)} :
          Invoke("fixup_psi_bar", 0, 0, "none",
                 tree, "ok", r.regs, r.calls, ret, r.nw, booted)

PlatformInit ==
  /\ halted = "run" /\ nops < MaxBootOps
  /\ \E dummy \in BOOLEAN :
       Invoke("init", 0, 0, "none", tree, "ok", psibar, astbmc_init(dummy), ret, 0, booted)

PowerDown ==
  /\ halted = "run" /\ nops < MaxBootOps
  /\ \E request \in Requests, rc \in ResultCodes :
       \E r \in {astbmc_ipmi_power_down(request, rc)} :
          Invoke("power_down", request, 0, "none",
                 tree, "ok", psibar, r.calls, r.ret, 0, booted)

Reboot ==
  /\ halted = "run" /\ nops < MaxBootOps
  /\ \E rc \in ResultCodes :
       \E r \in {astbmc_ipmi_reboot(rc)} :
          Invoke("reboot", 0, 0, "none", tree, "ok", psibar, r.calls, r.ret, 0, booted)

ExtIrq ==
  /\ halted = "run" /\ nops < MaxBootOps
  /\ \E chip_id \in ChipIds :
       Invoke("ext_irq", chip_id, 0, "none",
              tree, "ok", psibar, astbmc_ext_irq(chip_id), ret, 0, booted)

NextBoot == EarlyInit \/ FixupPsiBar

SpecBoot == InitBoot /\ [][NextBoot]_vars

NextRuntime == PlatformInit \/ PowerDown \/ Reboot \/ ExtIrq

SpecRuntime == InitBoot /\ [][NextRuntime]_vars

(***************************************************************************)
(* Properties.  lastOp describes the most recent invocation: lastOp.pre    *)
(* and lastOp.regpre are the tree and the registers it started from, calls *)
(* the external calls it made.                                             *)
(***************************************************************************)
HasCompat(t, compat) == \E n \in DOMAIN t : dt_node_is_compatible(t, n, compat)

PreLpcs == CompatibleNodes(lastOp.pre, "ibm,power8-lpc")

HasPrimary(n) == dt_has_node_property(lastOp.pre, n, "primary")

HasAddressCells(n) == dt_has_node_property(lastOp.pre, n, "#address-cells")

\* Positions of the scan: those no earlier "#address-cells" node cuts off.
Scanned == {i \in DOMAIN PreLpcs : \A j \in 1..(i - 1) : ~HasAddressCells(PreLpcs[j])}

Marked == {i \in DOMAIN PreLpcs : HasPrimary(PreLpcs[i])}

CallsTo(fn) == {i \in DOMAIN calls : calls[i].fn = fn}

\* C1 as stated: with no LPC-compatible node and no I2C master yet,
\* astbmc_fixup_dt still creates the I2C master under chip 0.
C1_I2cCreatedWithoutLpc ==
  ( /\ lastOp.fn = "fixup_dt"
    /\ ~HasCompat(lastOp.pre, "ibm,power8-lpc")
    /\ ~HasCompat(lastOp.pre, "ibm,power8-i2cm")
    /\ 0 \in DOMAIN chips )
  => \E n \in DOMAIN tree :
       /\ dt_node_is_compatible(tree, n, "ibm,power8-i2cm")
       /\ tree[n].parent = chips[0]

\* C1 amended: with no LPC-compatible node, astbmc_fixup_dt returns at once:
\* it selects no bus and leaves the whole tree as it was (no UART, no BT
\* node and no I2C subtree either).
C1_NoLpcNoRepair ==
  (lastOp.fn = "fixup_dt" /\ ~HasCompat(lastOp.pre, "ibm,power8-lpc"))
  => (tree = lastOp.pre /\ halted = "run" /\ lastOp.primary = 0)

C1_Witness ==
  /\ lastOp.fn = "fixup_dt"
  /\ ~HasCompat(lastOp.pre, "ibm,power8-lpc")
  /\ ~HasCompat(lastOp.pre, "ibm,power8-i2cm")
  /\ 0 \in DOMAIN chips
  /\ ~HasCompat(tree, "ibm,power8-i2cm")

\* C2 as stated: astbmc_fixup_dt_bt called again on the same bus, after a call
\* in which every creation succeeded, finds the BT node, creates nothing and
\* leaves the tree as it was.
C2_BtIdempotent ==
  ( /\ lastOp.fn = "fixup_dt_bt"
    /\ lastOp.prevfn = "fixup_dt_bt"
    /\ lastOp.prevarg = lastOp.arg
    /\ lastOp.prevfailed = "none" )
  => (tree = lastOp.pre /\ halted = "run" /\ lastOp.failed = "none")

\* C3: when exactly one LPC-compatible node carries "primary" and no node
\* before it carries "#address-cells", the marked node is selected.
C3_MarkedNodeSelected ==
  ( /\ lastOp.fn = "fixup_dt"
    /\ Cardinality(Marked) = 1
    /\ Marked \subseteq Scanned )
  => \A m \in Marked : lastOp.primary = PreLpcs[m]

C3_Witness ==
  /\ lastOp.fn = "fixup_dt"
  /\ Len(PreLpcs) = 3
  /\ Marked = {2}
  /\ ~HasAddressCells(PreLpcs[1])
  /\ lastOp.primary = PreLpcs[2]

\* C4: the scan stops at the first LPC-compatible node carrying
\* "#address-cells": the node selected is never a later one, and when the
\* first node carries it the first node is selected.
C4_EarlyStop ==
  lastOp.fn = "fixup_dt"
  => /\ \A i \in DOMAIN PreLpcs :
          HasAddressCells(PreLpcs[i])
          => \E j \in 1..i : lastOp.primary = PreLpcs[j]
     /\ (PreLpcs # <<>> /\ HasAddressCells(PreLpcs[1]))
        => lastOp.primary = PreLpcs[1]

C4_Witness ==
  /\ lastOp.fn = "fixup_dt"
  /\ Len(PreLpcs) >= 2
  /\ HasAddressCells(PreLpcs[1])
  /\ ~HasPrimary(PreLpcs[1])
  /\ HasPrimary(PreLpcs[2])
  /\ lastOp.primary = PreLpcs[1]

\* C5 as stated: when several scanned nodes carry "primary", the first of them
\* in traversal order is selected.
C5_FirstMarkedWins ==
  ( /\ lastOp.fn = "fixup_dt"
    /\ Cardinality(Marked \cap Scanned) >= 2 )
  => \E m \in Marked \cap Scanned :
       /\ \A o \in Marked \cap Scanned : m <= o
       /\ lastOp.primary = PreLpcs[m]

\* C5 amended: when scanned nodes carry "primary", the last of them in
\* traversal order is selected: each marked node the scan reaches replaces
\* the selection made before it.
C5_LastMarkedWins ==
  ( /\ lastOp.fn = "fixup_dt"
    /\ Marked \cap Scanned # {} )
  => \E m \in Marked \cap Scanned :
       /\ \A o \in Marked \cap Scanned : o <= m
       /\ lastOp.primary = PreLpcs[m]

C5_Witness ==
  /\ lastOp.fn = "fixup_dt"
  /\ Len(PreLpcs) >= 2
  /\ {1, 2} \subseteq Marked \cap Scanned
  /\ 3 \notin Marked \cap Scanned
  /\ lastOp.primary = PreLpcs[2]

\* The invocation read the PSI BAR of the first chip and the read succeeded.
PsiBarReadOk ==
  /\ lastOp.fn \in {"fixup_psi_bar", "early_init"}
  /\ \E i \in CallsTo("xscom_read") :
       calls[i].a = <<next_chip_first(chips), 33622282>>
  /\ CallsTo("prerror") = {}

\* C6: when the read succeeds and returns a value with bit 0 set, no register
\* write is issued and the registers are as they were.
C6_ConfiguredBarUntouched ==
  (PsiBarReadOk /\ lastOp.regpre[next_chip_first(chips)][4] % 2 = 1)
  => (CallsTo("xscom_write") = {} /\ psibar = lastOp.regpre)

C6_Witness ==
  /\ PsiBarReadOk
  /\ lastOp.regpre[next_chip_first(chips)] = <<0, 0, 0, 1>>
  /\ psibar = lastOp.regpre
  /\ CallsTo("xscom_write") = {}

\* C7: when the read succeeds and returns a value with bit 0 clear, exactly
\* one write is issued, of 0x3fffe80000001 to register 0x201090A of the chip
\* that was read; a write that takes effect leaves that value in the
\* register; an invocation that starts from that value issues no write; and
\* at most one write ever takes effect.
C7_WriteOnce ==
  /\ (PsiBarReadOk /\ lastOp.regpre[next_chip_first(chips)][4] % 2 = 0)
     => /\ Cardinality(CallsTo("xscom_write")) = 1
        /\ \A i \in CallsTo("xscom_write") :
             calls[i].a = <<next_chip_first(chips), 33622282, 3, 65534, 32768, 1>>
        /\ psibar[next_chip_first(chips)] \in
             {lastOp.regpre[next_chip_first(chips)], <<3, 65534, 32768, 1>>}
        /\ \A c \in DOMAIN psibar \ {next_chip_first(chips)} :
             psibar[c] = lastOp.regpre[c]
  /\ (PsiBarReadOk /\ lastOp.regpre[next_chip_first(chips)] = <<3, 65534, 32768, 1>>)
     => CallsTo("xscom_write") = {}
  /\ nwrites <= 1
  /\ nwrites = 1 => psibar[next_chip_first(chips)] = <<3, 65534, 32768, 1>>

C7_Witness ==
  /\ PsiBarReadOk
  /\ lastOp.prevfn \in {"fixup_psi_bar", "early_init"}
  /\ nwrites = 1
  /\ lastOp.regpre[next_chip_first(chips)] = <<3, 65534, 32768, 1>>
  /\ CallsTo("xscom_write") = {}

UartSetupCalls == CallsTo("ast_setup_vuart1") \cup CallsTo("ast_setup_sio_uart1")

\* C8: whichever way ast_is_vuart1_enabled() answers, early_init programs the
\* one UART path it configures with base 0x3f8 and IRQ 4.
C8_UartSameBaseAndIrq ==
  lastOp.fn = "early_init"
  => /\ \A i \in UartSetupCalls : calls[i].a = <<1016, 4>>
     /\ halted = "run" => Cardinality(UartSetupCalls) = 1

C8_Witness ==
  /\ lastOp.fn = "early_init"
  /\ halted = "run"
  /\ \E i \in CallsTo("ast_setup_sio_uart1") : calls[i].a = <<1016, 4>>
  /\ CallsTo("ast_setup_vuart1") = {}

\* C9: power_down(request) calls ipmi_chassis_control once, with that request,
\* whatever the request is, and logs a warning iff the request is not
\* IPMI_CHASSIS_PWR_DOWN.
C9_PowerDownRelay ==
  lastOp.fn = "power_down"
  => /\ Cardinality(CallsTo("ipmi_chassis_control")) = 1
     /\ \A i \in CallsTo("ipmi_chassis_control") : calls[i].a = <<lastOp.arg>>
     /\ (CallsTo("prlog") # {}) <=> (lastOp.arg # 0)

C9_Witness ==
  /\ lastOp.fn = "power_down"
  /\ lastOp.arg = 3
  /\ CallsTo("prlog") # {}
  /\ \E i \in CallsTo("ipmi_chassis_control") : calls[i].a = <<3>>

Reg(n) == tree[n].props["reg"].cells

\* C10 as stated: once astbmc_fixup_dt_i2cm has created the subtree and
\* returned, the new master has exactly two children, I2C buses with "reg" 0
\* and 2 matching their names; exactly one device node was created, under the
\* bus of port 2, with "reg" 0x50; and no created node shares its "reg" with
\* a sibling.
C10_I2cSubtreeShape ==
  (lastOp.fn = "fixup_dt_i2cm" /\ halted = "run" /\ tree # lastOp.pre)
  => LET new == (Len(lastOp.pre) + 1)..Len(tree)
         masters == {n \in new : dt_node_is_compatible(tree, n, "ibm,power8-i2cm")}
         buses == {n \in new : dt_node_is_compatible(tree, n, "ibm,power8-i2c-port")}
         devs == new \ (masters \cup buses)
     IN /\ Cardinality(masters) = 1
        /\ \A m \in masters :
             /\ tree[m].parent = chips[0]
             /\ Children(tree, m) = buses
             /\ tree[m].name = "i2cm@" \o ToHex(Reg(m)[1])
        /\ Cardinality(buses) = 2
        /\ {Reg(b) : b \in buses} = {<<0>>, <<2>>}
        /\ \A b \in buses : tree[b].name = "i2c-bus@" \o ToHex(Reg(b)[1])
        /\ Cardinality(devs) = 1
        /\ \A d \in devs :
             /\ tree[d].parent \in buses
             /\ Reg(tree[d].parent) = <<2>>
             /\ Reg(d) = <<80>>
             /\ tree[d].name = "eeprom@" \o ToHex(Reg(d)[1])
        /\ \A n \in new : \A o \in Children(tree, tree[n].parent) \ {n} :
             dt_has_node_property(tree, o, "reg") => Reg(o) # Reg(n)

HasUart(t, lpc) == \E c \in Children(t, lpc) : dt_node_is_compatible(t, c, "ns16550")

\* C11: astbmc_fixup_dt_uart is idempotent.  Called on a bus that already has
\* an "ns16550"-compatible child it leaves the tree as it was; a call that
\* creates the node leaves the bus with such a child; so a second call on the
\* same bus, after a call in which the creation succeeded, changes nothing.
C11_UartIdempotent ==
  lastOp.fn = "fixup_dt_uart"
  => /\ HasUart(lastOp.pre, lastOp.arg)
        => (tree = lastOp.pre /\ halted = "run" /\ lastOp.failed = "none")
     /\ (halted = "run" /\ lastOp.failed = "none") => HasUart(tree, lastOp.arg)
     /\ ( /\ lastOp.prevfn = "fixup_dt_uart"
          /\ lastOp.prevarg = lastOp.arg
          /\ lastOp.prevfailed = "none" )
        => (tree = lastOp.pre /\ halted = "run" /\ lastOp.failed = "none")

C11_Witness ==
  /\ lastOp.fn = "fixup_dt_uart"
  /\ lastOp.prevfn = "fixup_dt_uart"
  /\ lastOp.prevarg = lastOp.arg
  /\ lastOp.prevfailed = "none"
  /\ \E c \in Children(tree, lastOp.arg) :
       /\ tree[c].name = "serial@i3f8"
       /\ "ibm,irq-chip-id" \in DOMAIN tree[c].props
  /\ tree = lastOp.pre

\* Nodes of the tree that the most recent invocation added.
NewNodes == (Len(lastOp.pre) + 1)..Len(tree)

\* C12: the I2C repair tests the whole tree.  When any node, under whichever
\* chip, is compatible with "ibm,power8-i2cm", astbmc_fixup_dt_i2cm returns
\* normally with the tree as it was, and astbmc_fixup_dt adds no I2C node; a
\* second astbmc_fixup_dt_i2cm call right after a first one adds nothing.
C12_I2cmGlobalCheck ==
  /\ (lastOp.fn = "fixup_dt_i2cm" /\ HasCompat(lastOp.pre, "ibm,power8-i2cm"))
     => (tree = lastOp.pre /\ halted = "run" /\ lastOp.failed = "none")
  /\ (lastOp.fn = "fixup_dt" /\ HasCompat(lastOp.pre, "ibm,power8-i2cm"))
     => \A n \in NewNodes :
          /\ ~dt_node_is_compatible(tree, n, "ibm,power8-i2cm")
          /\ ~dt_node_is_compatible(tree, n, "ibm,power8-i2c-port")
          /\ ~dt_node_is_compatible(tree, n, "atmel,24c64")
  /\ (lastOp.fn = "fixup_dt_i2cm" /\ lastOp.prevfn = "fixup_dt_i2cm")
     => (tree = lastOp.pre /\ halted = "run")

C12_Witness ==
  /\ lastOp.fn = "fixup_dt_i2cm"
  /\ 0 \notin DOMAIN chips
  /\ \E n \in DOMAIN lastOp.pre :
       /\ dt_node_is_compatible(lastOp.pre, n, "ibm,power8-i2cm")
       /\ lastOp.pre[n].parent = chips[1]
  /\ tree = lastOp.pre
  /\ halted = "run"

\* C13 as stated: a creation that fails while the I2C nodes are being made
\* (the master, either bus, or the EEPROM device) ends in an assertion
\* failure; the function never returns past it.
C13_CreationFailureFatal ==
  ( /\ lastOp.fn \in {"fixup_dt_i2cm", "fixup_dt"}
    /\ lastOp.failed \in {"i2cm", "bus0", "bus2", "dev"} )
  => halted = "assert"

\* The steps of an invocation: its calls without the log lines, the register
\* write and the SuperIO disable, the two UART set-ups under one name.
IsStep(c) == c.fn \notin {"printf", "prerror", "xscom_write", "ast_disable_sio_uart1"}

StepName(c) ==
  IF c.fn \in {"ast_setup_vuart1", "ast_setup_sio_uart1"} THEN "uart_setup" ELSE c.fn

StepsOf(cs) == LET s == SelectSeq(cs, IsStep) IN [i \in DOMAIN s |-> StepName(s[i])]

\* C14: astbmc_early_init runs its steps in one order.  The tree repair comes
\* first: a run that stops in it makes no call at all, and a run that passes
\* it has the UART node under the selected bus.  Then the PSI BAR fixup on
\* the first chip, the interrupt policy, ast_io_init, the virtual-UART query
\* and the UART set-up, ast_setup_ibt(0xe4, 10), and last uart_init(true).
C14_EarlyInitOrder ==
  lastOp.fn = "early_init"
  => /\ halted # "run" => calls = <<>>
     /\ halted = "run"
        => /\ StepsOf(calls) = << "xscom_read", "psi_set_external_irq_policy",
                                  "ast_io_init", "ast_is_vuart1_enabled",
                                  "uart_setup", "ast_setup_ibt", "uart_init" >>
           /\ calls[1].a = <<next_chip_first(chips), 33622282>>
           /\ \A i \in CallsTo("xscom_write") \cup CallsTo("prerror") :
                \A j \in CallsTo("psi_set_external_irq_policy") : i < j
           /\ \A j \in CallsTo("psi_set_external_irq_policy") :
                calls[j].msg = "EXTERNAL_IRQ_POLICY_SKIBOOT"
           /\ \A j \in CallsTo("ast_setup_ibt") : calls[j].a = <<228, 10>>
           /\ calls[Len(calls)].fn = "uart_init"
           /\ calls[Len(calls)].a = <<1>>
           /\ (lastOp.primary # 0 /\ lastOp.failed = "none")
              => HasUart(tree, lastOp.primary)

C14_Witness ==
  /\ lastOp.fn = "early_init"
  /\ halted = "run"
  /\ Len(tree) > Len(lastOp.pre)
  /\ CallsTo("xscom_write") # {}
  /\ CallsTo("ast_setup_vuart1") # {}
  /\ calls[Len(calls)].fn = "uart_init"

\* The invocation read the PSI BAR and the read failed.
PsiBarReadFailed ==
  /\ lastOp.fn \in {"fixup_psi_bar", "early_init"}
  /\ \E i \in CallsTo("xscom_read") : calls[i].rv # 0

\* C15: when the read of the PSI BAR fails, the failure is logged, no
\* register write is issued and the registers are as they were; and
\* astbmc_early_init goes on through every later step: the interrupt policy,
\* ast_io_init, the UART set-up, ast_setup_ibt and uart_init.
C15_ReadFailureContinues ==
  PsiBarReadFailed
  => /\ \E i \in CallsTo("prerror") : calls[i].msg = "PLAT: Error reading PSI BAR"
     /\ CallsTo("xscom_write") = {}
     /\ psibar = lastOp.regpre
     /\ halted = "run"
     /\ lastOp.fn = "early_init"
        => /\ \A f \in {"psi_set_external_irq_policy", "ast_io_init",
                         "ast_is_vuart1_enabled", "ast_setup_ibt", "uart_init"} :
                Cardinality(CallsTo(f)) = 1
           /\ Cardinality(UartSetupCalls) = 1
           /\ \A i \in CallsTo("prerror") :
                \A f \in {"psi_set_external_irq_policy", "ast_io_init",
                           "ast_is_vuart1_enabled", "ast_setup_vuart1",
                           "ast_setup_sio_uart1", "ast_setup_ibt", "uart_init"} :
                  \A j \in CallsTo(f) : i < j

C15_Witness ==
  /\ PsiBarReadFailed
  /\ lastOp.fn = "early_init"
  /\ lastOp.regpre[next_chip_first(chips)] = <<0, 0, 0, 0>>
  /\ psibar = lastOp.regpre
  /\ CallsTo("prerror") # {}
  /\ calls[Len(calls)].fn = "uart_init"

\* C16: astbmc_early_init programs exactly one UART path.  When
\* ast_is_vuart1_enabled() answers true, it disables the SuperIO UART and
\* then sets up the virtual UART, and never sets up the SuperIO UART; when
\* it answers false, it sets up the SuperIO UART and makes neither of the
\* other two calls.
C16_OneUartPath ==
  (lastOp.fn = "early_init" /\ halted = "run")
  => /\ Cardinality(CallsTo("ast_is_vuart1_enabled")) = 1
     /\ \A q \in CallsTo("ast_is_vuart1_enabled") :
          /\ calls[q].rv # 0
             => /\ Cardinality(CallsTo("ast_disable_sio_uart1")) = 1
                /\ Cardinality(CallsTo("ast_setup_vuart1")) = 1
                /\ CallsTo("ast_setup_sio_uart1") = {}
                /\ \A d \in CallsTo("ast_disable_sio_uart1") :
                     \A v \in CallsTo("ast_setup_vuart1") : q < d /\ d < v
          /\ calls[q].rv = 0
             => /\ Cardinality(CallsTo("ast_setup_sio_uart1")) = 1
                /\ CallsTo("ast_disable_sio_uart1") = {}
                /\ CallsTo("ast_setup_vuart1") = {}
                /\ \A u \in CallsTo("ast_setup_sio_uart1") : q < u

C16_Witness ==
  /\ lastOp.fn = "early_init"
  /\ halted = "run"
  /\ \E q \in CallsTo("ast_is_vuart1_enabled") : calls[q].rv = 1
  /\ \E d \in CallsTo("ast_disable_sio_uart1") :
       \E v \in CallsTo("ast_setup_vuart1") : d < v
  /\ CallsTo("ast_setup_sio_uart1") = {}

\* C17: astbmc_ipmi_power_down and astbmc_ipmi_reboot each call
\* ipmi_chassis_control exactly once, whatever it answers, and return its
\* answer unchanged; astbmc_ipmi_reboot passes IPMI_CHASSIS_HARD_RESET.
C17_ChassisControlRelay ==
  lastOp.fn \in {"power_down", "reboot"}
  => /\ Cardinality(CallsTo("ipmi_chassis_control")) = 1
     /\ \A i \in CallsTo("ipmi_chassis_control") :
          /\ ret = calls[i].rv
          /\ lastOp.fn = "reboot" => calls[i].a = <<3>>

C17_Witness ==
  /\ lastOp.fn = "reboot"
  /\ ret = -1
  /\ Cardinality(CallsTo("ipmi_chassis_control")) = 1
  /\ \E i \in CallsTo("ipmi_chassis_control") :
       calls[i].a = <<3>> /\ calls[i].rv = -1

\* C18: the repairs only add nodes.  After astbmc_fixup_dt_uart,
\* astbmc_fixup_dt_bt, astbmc_fixup_dt_i2cm or astbmc_fixup_dt, every node
\* that was in the tree is still there under the same parent, with the same
\* name and the same properties and values.
C18_OnlyAddsNodes ==
  lastOp.fn \in {"fixup_dt", "fixup_dt_uart", "fixup_dt_bt", "fixup_dt_i2cm"}
  => /\ Len(tree) >= Len(lastOp.pre)
     /\ \A n \in DOMAIN lastOp.pre : tree[n] = lastOp.pre[n]

C18_Witness ==
  /\ lastOp.fn = "fixup_dt"
  /\ lastOp.prevfn = "fixup_dt_bt"
  /\ Len(tree) >= Len(lastOp.pre) + 5
  /\ \A n \in DOMAIN lastOp.pre : tree[n] = lastOp.pre[n]

\* C19: astbmc_init calls pnor_init, bt_init, ipmi_rtc_init, ipmi_opal_init
\* and then ipmi_set_power_state(S0 working, no change), in that order, so
\* the announcement never precedes bt_init; it ends with
\* uart_setup_opal_console() iff dummy_console_enabled() answered false.
C19_InitOrder ==
  lastOp.fn = "init"
  => /\ Len(calls) >= 6
     /\ [i \in 1..6 |-> calls[i].fn]
          = << "pnor_init", "bt_init", "ipmi_rtc_init", "ipmi_opal_init",
               "ipmi_set_power_state", "dummy_console_enabled" >>
     /\ calls[5].msg = "IPMI_PWR_SYS_S0_WORKING,IPMI_PWR_NOCHANGE"
     /\ calls[6].rv = 0
        => (Len(calls) = 7 /\ calls[7].fn = "uart_setup_opal_console")
     /\ calls[6].rv # 0 => Len(calls) = 6

C19_Witness ==
  /\ lastOp.fn = "init"
  /\ Len(calls) = 6
  /\ calls[2].fn = "bt_init"
  /\ calls[5].fn = "ipmi_set_power_state"
  /\ calls[6].rv = 1
  /\ CallsTo("uart_setup_opal_console") = {}

\* C20: astbmc_ext_irq calls uart_irq() and bt_irq(), once each, whatever
\* the chip id, and leaves the tree and the registers as they were.
C20_ExtIrqUnconditional ==
  lastOp.fn = "ext_irq"
  => /\ Len(calls) = 2
     /\ Cardinality(CallsTo("uart_irq")) = 1
     /\ Cardinality(CallsTo("bt_irq")) = 1
     /\ tree = lastOp.pre
     /\ psibar = lastOp.regpre
     /\ halted = "run"
     /\ nwrites = 0

C20_Witness ==
  /\ lastOp.fn = "ext_irq"
  /\ lastOp.arg = 1
  /\ CallsTo("uart_irq") # {}
  /\ CallsTo("bt_irq") # {}

====
